---- MODULE Spec2Model ----
(***************************************************************************)
(* Electron simulation (src/main.py): NUM_ELECTRONS point charges in a     *)
(* rectangular arena, each one a simpy process that repeats                *)
(*   calculate_forces; update_kinematics; handle_boundaries; timeout       *)
(* and a driver loop that calls env.step() ten times per rendered frame.   *)
(*                                                                         *)
(* Numbers.  The program computes in floating point; the model computes in *)
(* integers, in the unit system                                            *)
(*   length = SCALE metres (one pixel), time = TIME_STEP seconds,          *)
(*   mass = ELECTRON_MASS / 1000,                                          *)
(* so that SCALE = 1, TIME_STEP = 1, ELECTRON_MASS = 1000, V0 = 5 and      *)
(* K_CONST * ELECTRON_CHARGE**2 = 63319.  Every division is rounded to the *)
(* nearest integer, ties to even, as IEEE-754 rounds to the nearest        *)
(* representable number (fdiv); math.hypot is the rounded square root.     *)
(***************************************************************************)
EXTENDS Integers, Sequences, FiniteSets, TLC

\* ---------------------------------------------------------------- constants
WIDTH == 1000
HEIGHT == 800
SCALE == 1
NUM_ELECTRONS == 10
TIME_STEP == 1
ELECTRON_MASS == 1000
KQ2 == 63319
V0 == 5
\* the distance floor 1e-12 m lies below the model's resolution: a distance
\* is below the floor exactly when it is below the smallest positive distance
MIN_DIST == 1
\* a frame of fewer env.step() calls than there are electrons
STEPS_PER_FRAME_short == 8
STEPS_PER_FRAME == 10
\* simpy event priorities
URGENT == 0
NORMAL == 1

\* ------------------------------------------------------------------- bounds
\* frames the driver loop is followed for
MaxFrames == 3

VARIABLES
    elsim,        \* the engine: [env |-> [now, eid, queue], electrons |-> list]
    twin,         \* a second, independently constructed engine
    round_start,  \* history: the electron list when the current round began
    pc,           \* position of main(): "events", "stepping", "render", "done"
    running,      \* main()'s loop flag
    i,            \* index of the for loop around env.step()
    frames,       \* frames rendered so far
    screen        \* circle centres drawn by the last draw()

vars == <<elsim, twin, round_start, pc, running, i, frames, screen>>

\* ------------------------------------------------------------- arithmetic
Abs(a) == IF a < 0 THEN -a ELSE a

\* a // b: floor division where the program divides exactly
fdiv_floor(a, b) == a \div b

\* a / b for b > 0, rounded to nearest, ties to even; sign-symmetric
fdiv(a, b) ==
    LET n == Abs(a)
        q == n \div b
        r == n % b
        m == IF 2 * r > b \/ (2 * r = b /\ q % 2 = 1) THEN q + 1 ELSE q
    IN  IF a < 0 THEN -m ELSE m

\* int(a / b) for a >= 0, b > 0
int_div(a, b) == a \div b

RECURSIVE isqrt(_, _, _)
\* the largest r in lo..hi with r*r <= n
isqrt(n, lo, hi) ==
    IF lo >= hi THEN lo
    ELSE LET mid == (lo + hi + 1) \div 2
         IN  IF mid * mid <= n THEN isqrt(n, mid, hi) ELSE isqrt(n, lo, mid - 1)

\* math.hypot: sqrt(dx*dx + dy*dy) rounded to nearest
hypot(dx, dy) ==
    LET n == dx * dx + dy * dy
        r == isqrt(n, 0, Abs(dx) + Abs(dy))
    IN  IF n - r * r > r THEN r + 1 ELSE r

\* ----------------------------------------------------------------- Electron
max_x == WIDTH * SCALE
max_y == HEIGHT * SCALE

\* the body of the loop over env.electrons for one other electron:
\* what it adds to (force_x, force_y)
pair_force(self, other) ==
    IF other.id # self.id
    THEN LET dx == self.x - other.x
             dy == self.y - other.y
             dist == hypot(dx, dy)
         IN  IF dist < MIN_DIST THEN <<0, 0>>
             ELSE LET force_mag == fdiv(KQ2, dist * dist)
                  IN  <<fdiv(force_mag * dx, dist), fdiv(force_mag * dy, dist)>>
    ELSE <<0, 0>>

RECURSIVE sum_forces(_, _, _)
\* force accumulated after the loop has visited electrons[1..k]
sum_forces(self, electrons, k) ==
    IF k = 0 THEN <<0, 0>>
    ELSE LET acc == sum_forces(self, electrons, k - 1)
             add == pair_force(self, electrons[k])
         IN  <<acc[1] + add[1], acc[2] + add[2]>>

calculate_forces(self, electrons) ==
    LET f == sum_forces(self, electrons, Len(electrons))
    IN  [self EXCEPT !.force_x = f[1], !.force_y = f[2]]

\* update_kinematics advancing the position before the velocity
update_kinematics_position_first(self) ==
    [self EXCEPT !.x = self.x + self.vx * TIME_STEP,
                 !.y = self.y + self.vy * TIME_STEP,
                 !.vx = self.vx + fdiv(self.force_x, ELECTRON_MASS) * TIME_STEP,
                 !.vy = self.vy + fdiv(self.force_y, ELECTRON_MASS) * TIME_STEP]

update_kinematics(self) ==
    LET vx == self.vx + fdiv(self.force_x, ELECTRON_MASS) * TIME_STEP
        vy == self.vy + fdiv(self.force_y, ELECTRON_MASS) * TIME_STEP
    IN  [self EXCEPT !.vx = vx, !.vy = vy,
                     !.x = self.x + vx * TIME_STEP,
                     !.y = self.y + vy * TIME_STEP]

\* handle_boundaries without its two elif branches: the far walls are open
handle_boundaries_open(self) ==
    LET sx == IF self.x <= 0 THEN [self EXCEPT !.x = 0, !.vx = Abs(self.vx)]
              ELSE self
    IN  IF sx.y <= 0 THEN [sx EXCEPT !.y = 0, !.vy = Abs(sx.vy)]
        ELSE sx

\* handle_boundaries as one if/elif chain over both axes: the y axis is only
\* looked at when the x axis needed no correction
handle_boundaries_chain(self) ==
    IF self.x <= 0 THEN [self EXCEPT !.x = 0, !.vx = Abs(self.vx)]
    ELSE IF self.x >= max_x THEN [self EXCEPT !.x = max_x, !.vx = -Abs(self.vx)]
    ELSE IF self.y <= 0 THEN [self EXCEPT !.y = 0, !.vy = Abs(self.vy)]
    ELSE IF self.y >= max_y THEN [self EXCEPT !.y = max_y, !.vy = -Abs(self.vy)]
    ELSE self

\* handle_boundaries stopping the electron at the wall instead of reflecting
handle_boundaries_stop(self) ==
    LET sx == IF self.x <= 0 THEN [self EXCEPT !.x = 0, !.vx = 0]
              ELSE IF self.x >= max_x THEN [self EXCEPT !.x = max_x, !.vx = 0]
                   ELSE self
    IN  IF sx.y <= 0 THEN [sx EXCEPT !.y = 0, !.vy = 0]
        ELSE IF sx.y >= max_y THEN [sx EXCEPT !.y = max_y, !.vy = 0]
             ELSE sx

\* handle_boundaries with an inelastic wall: the reflected speed is halved
handle_boundaries_damped(self) ==
    LET sx == IF self.x <= 0 THEN [self EXCEPT !.x = 0, !.vx = Abs(self.vx) \div 2]
              ELSE IF self.x >= max_x
                   THEN [self EXCEPT !.x = max_x, !.vx = -(Abs(self.vx) \div 2)]
                   ELSE self
    IN  IF sx.y <= 0 THEN [sx EXCEPT !.y = 0, !.vy = Abs(sx.vy) \div 2]
        ELSE IF sx.y >= max_y
             THEN [sx EXCEPT !.y = max_y, !.vy = -(Abs(sx.vy) \div 2)]
             ELSE sx

handle_boundaries(self) ==
    LET sx == IF self.x <= 0 THEN [self EXCEPT !.x = 0, !.vx = Abs(self.vx)]
              ELSE IF self.x >= max_x
                   THEN [self EXCEPT !.x = max_x, !.vx = -Abs(self.vx)]
                   ELSE self
    IN  IF sx.y <= 0 THEN [sx EXCEPT !.y = 0, !.vy = Abs(sx.vy)]
        ELSE IF sx.y >= max_y
             THEN [sx EXCEPT !.y = max_y, !.vy = -Abs(sx.vy)]
             ELSE sx

\* one pass of the body of Electron.update's loop, up to the yield
update(self, electrons) ==
    handle_boundaries(update_kinematics(calculate_forces(self, electrons)))

\* ---------------------------------------------------------------- scheduler
\* a heap that breaks ties by the newest event first
before_newest(a, b) ==
    \/ a.time < b.time
    \/ a.time = b.time /\ a.priority < b.priority
    \/ a.time = b.time /\ a.priority = b.priority /\ a.eid > b.eid

\* simpy keeps its events in a heap ordered by (time, priority, eid)
before(a, b) ==
    \/ a.time < b.time
    \/ a.time = b.time /\ a.priority < b.priority
    \/ a.time = b.time /\ a.priority = b.priority /\ a.eid < b.eid

schedule(env, priority, delay, proc) ==
    [env EXCEPT !.queue = @ \cup {[time |-> env.now + delay, priority |-> priority,
                                   eid |-> env.eid, proc |-> proc]},
                !.eid = @ + 1]

\* env.process(self.update()): the process starts at an urgent event
process(env, proc) == schedule(env, URGENT, 0, proc)

\* an update that returns instead of yielding a timeout
timeout_lost(env, delay, proc) == env

\* yield self.env.timeout(delay): the process resumes at a normal event
timeout(env, delay, proc) == schedule(env, NORMAL, delay, proc)

\* a heap without the eid tie-break: any of the earliest events may be popped
runnable_unordered(queue) ==
    {ev \in queue : \A o \in queue : ~(o.time < ev.time)
                                     /\ ~(o.time = ev.time /\ o.priority < ev.priority)}

\* the events env.step() may pop: the head of the heap
runnable(queue) == {ev \in queue : \A o \in queue \ {ev} : before(ev, o)}

\* an update whose calculate_forces zeroes the force of every electron it
\* visits, not only its own
step_resets_others(sim, ev) ==
    LET k == CHOOSE k \in 1..Len(sim.electrons) : sim.electrons[k].id = ev.proc
        self == update(sim.electrons[k], sim.electrons)
        env1 == [sim.env EXCEPT !.now = ev.time, !.queue = @ \ {ev}]
    IN  [env |-> timeout(env1, TIME_STEP, ev.proc),
         electrons |-> [j \in 1..Len(sim.electrons) |->
                           IF j = k THEN [self EXCEPT !.updates = @ + 1]
                           ELSE [sim.electrons[j] EXCEPT !.force_x = 0,
                                                         !.force_y = 0]]]

\* env.step() popping ev: the electron's process runs to its next yield
step(sim, ev) ==
    LET k == CHOOSE k \in 1..Len(sim.electrons) : sim.electrons[k].id = ev.proc
        self == update(sim.electrons[k], sim.electrons)
        env1 == [sim.env EXCEPT !.now = ev.time, !.queue = @ \ {ev}]
    IN  [env |-> timeout(env1, TIME_STEP, ev.proc),
         electrons |-> [sim.electrons EXCEPT
                           ![k] = [self EXCEPT !.updates = @ + 1]]]

\* -------------------------------------------------------------- ElectronSim
\* Electron.__init__ without the process; updates counts the completed passes
\* of the electron's update loop
Electron(electron_id, x, y, vx, vy) ==
    [id |-> electron_id, x |-> x, y |-> y, vx |-> vx, vy |-> vy,
     force_x |-> 0, force_y |-> 0, updates |-> 0]

RECURSIVE ElectronSimLoop(_, _)
\* the engine after n passes of __init__'s loop; draws[n] holds the random
\* numbers of pass n, positions already multiplied by SCALE
ElectronSimLoop(draws, n) ==
    IF n = 0 THEN [env |-> [now |-> 0, eid |-> 0, queue |-> {}], electrons |-> <<>>]
    ELSE LET s == ElectronSimLoop(draws, n - 1)
             d == draws[n]
         IN  [env |-> process(s.env, n - 1),
              electrons |-> Append(s.electrons, Electron(n - 1, d.x, d.y, d.vx, d.vy))]

ElectronSim(draws) == ElectronSimLoop(draws, Len(draws))

\* get_positions walking the list from its end
get_positions_reversed(sim) ==
    [k \in 1..Len(sim.electrons) |->
        <<sim.electrons[Len(sim.electrons) + 1 - k].x,
          sim.electrons[Len(sim.electrons) + 1 - k].y>>]

get_positions(sim) ==
    [k \in 1..Len(sim.electrons) |-> <<sim.electrons[k].x, sim.electrons[k].y>>]

\* the circle centres draw() paints, in painting order
draw(sim) ==
    LET p == get_positions(sim)
    IN  [k \in 1..Len(p) |-> <<int_div(p[k][1], SCALE), int_div(p[k][2], SCALE)>>]

\* ------------------------------------------------------------ initial draws
Draw(x, y, vx, vy) == [x |-> x, y |-> y, vx |-> vx, vy |-> vy]

\* the values of random.uniform considered for electron n, as (x, y, vx, vy)
RandomDraws(n) ==
    CASE n = 0 -> {Draw(0, 400, -3, 0), Draw(2, 400, -5, 2)}
      [] n = 1 -> {Draw(5, 5, 1, 0), Draw(3, 4, -5, -5)}
      [] n = 2 -> {Draw(5, 5, -1, 2), Draw(6, 8, 2, -1)}
      [] n = 3 -> {Draw(998, 798, 5, 5), Draw(990, 790, -4, 3)}
      [] n = 4 -> {Draw(996, 795, 3, -2)}
      [] n = 5 -> {Draw(500, 400, 0, 0)}
      [] n = 6 -> {Draw(999, 300, 4, 0)}
      [] n = 7 -> {Draw(300, 0, 0, -5)}
      [] n = 8 -> {Draw(700, 799, -1, 3)}
      [] OTHER -> {Draw(502, 403, 5, -5)}

RECURSIVE DrawSeqs(_)
\* the sequences of draws for n electrons
DrawSeqs(n) ==
    IF n = 0 THEN {<<>>}
    ELSE {Append(s, d) : s \in DrawSeqs(n - 1), d \in RandomDraws(n - 1)}

\* the draws considered for a population of one
SingleDraws ==
    {Draw(x, y, vx, vy) : x \in {0, 3, WIDTH - 2}, y \in {0, 400, HEIGHT},
                          vx \in {-V0, 0, 3}, vy \in {-4, 0, V0}}

\* ------------------------------------------------------------------- main()
InitDriver ==
    /\ pc = "events"
    /\ running = TRUE
    /\ i = 0
    /\ frames = 0
    /\ screen = <<>>

Init ==
    /\ \E draws \in DrawSeqs(NUM_ELECTRONS) :
          /\ elsim = ElectronSim(draws)
          /\ twin = ElectronSim(draws)
    /\ round_start = elsim.electrons
    /\ InitDriver

InitSingle ==
    /\ \E d \in SingleDraws :
          /\ elsim = ElectronSim(<<d>>)
          /\ twin = ElectronSim(<<d>>)
    /\ round_start = elsim.electrons
    /\ InitDriver

\* a round begins when every electron has completed the same number of passes
in_step(electrons) ==
    \E a, b \in 1..Len(electrons) : electrons[a].updates # electrons[b].updates

\* for event in pygame.event.get(): a QUIT event may or may not have arrived
PollEvents ==
    /\ pc = "events"
    /\ frames < MaxFrames
    /\ \E quit \in BOOLEAN : running' = (running /\ ~quit)
    /\ pc' = "stepping"
    /\ i' = 0
    /\ UNCHANGED <<elsim, twin, round_start, frames, screen>>

\* env.step() inside for _ in range(10)
EnvStep ==
    /\ pc = "stepping"
    /\ i < STEPS_PER_FRAME
    /\ \E ev \in runnable(elsim.env.queue) : elsim' = step(elsim, ev)
    /\ round_start' = IF in_step(elsim.electrons) THEN round_start
                      ELSE elsim.electrons
    /\ i' = i + 1
    /\ pc' = IF i + 1 = STEPS_PER_FRAME THEN "render" ELSE "stepping"
    /\ UNCHANGED <<twin, running, frames, screen>>

\* elsim.draw(screen); the while condition is tested after the frame
Render ==
    /\ pc = "render"
    /\ screen' = draw(elsim)
    /\ frames' = frames + 1
    /\ pc' = IF running THEN "events" ELSE "done"
    /\ UNCHANGED <<elsim, twin, round_start, running, i>>

\* env.step() on both engines, for two runs side by side
EnvStepTwin ==
    /\ pc = "stepping"
    /\ i < STEPS_PER_FRAME
    /\ \E ev \in runnable(elsim.env.queue) : elsim' = step(elsim, ev)
    /\ \E ev \in runnable(twin.env.queue) : twin' = step(twin, ev)
    /\ round_start' = IF in_step(elsim.electrons) THEN round_start
                      ELSE elsim.electrons
    /\ i' = i + 1
    /\ pc' = IF i + 1 = STEPS_PER_FRAME THEN "render" ELSE "stepping"
    /\ UNCHANGED <<running, frames, screen>>

Next == PollEvents \/ EnvStep \/ Render

Spec == Init /\ [][Next]_vars

SpecSingle == InitSingle /\ [][Next]_vars

NextTwin == PollEvents \/ EnvStepTwin \/ Render

\* two engines constructed from the same draws, stepped side by side
SpecTwin == Init /\ [][NextTwin]_vars

\* ------------------------------------------------------------------- claims
Ids(sim) == {sim.electrons[k].id : k \in 1..Len(sim.electrons)}

\* the electron with the given id
electron(sim, id) ==
    sim.electrons[CHOOSE k \in 1..Len(sim.electrons) : sim.electrons[k].id = id]

\* C1: in every state the driver can observe, every electron lies inside the
\* arena: 0 <= x <= WIDTH*SCALE and 0 <= y <= HEIGHT*SCALE.
C1_InsideArena ==
    \A k \in 1..Len(elsim.electrons) :
        LET e == elsim.electrons[k]
        IN  0 <= e.x /\ e.x <= WIDTH * SCALE /\ 0 <= e.y /\ e.y <= HEIGHT * SCALE

\* an electron that ran into the far corner and was put back on both walls
C1_Witness ==
    \E k \in 1..Len(elsim.electrons) :
        LET e == elsim.electrons[k]
        IN  e.updates > 0 /\ e.x = WIDTH * SCALE /\ e.y = HEIGHT * SCALE
            /\ e.vx < 0 /\ e.vy < 0

\* C3: whenever the driver loop calls get_positions (in draw, after its
\* env.step() calls of the frame), all NUM_ELECTRONS electrons have completed
\* the same number of updates.
C3_NoPartialStepRendered ==
    pc = "render" =>
        /\ Len(elsim.electrons) = NUM_ELECTRONS
        /\ \A a, b \in 1..Len(elsim.electrons) :
              elsim.electrons[a].updates = elsim.electrons[b].updates

\* the second frame is about to be drawn, every electron updated twice
C3_Witness ==
    /\ pc = "render"
    /\ frames = 1
    /\ \A k \in 1..Len(elsim.electrons) : elsim.electrons[k].updates = 2

\* C9: get_positions always returns NUM_ELECTRONS entries, entry k the current
\* (x, y) of the electron with id k; the list of electrons keeps its
\* construction order; what draw() painted is the positions by id.
C9_SnapshotOrder ==
    /\ Len(get_positions(elsim)) = NUM_ELECTRONS
    /\ Len(elsim.electrons) = NUM_ELECTRONS
    /\ \A k \in 0..(NUM_ELECTRONS - 1) :
          /\ elsim.electrons[k + 1].id = k
          /\ get_positions(elsim)[k + 1] = <<elsim.electrons[k + 1].x,
                                             elsim.electrons[k + 1].y>>
    /\ (frames > 0 /\ pc \in {"events", "done"}) =>
          /\ Len(screen) = NUM_ELECTRONS
          /\ \A k \in 0..(NUM_ELECTRONS - 1) :
                screen[k + 1] = <<int_div(electron(elsim, k).x, SCALE),
                                  int_div(electron(elsim, k).y, SCALE)>>

\* a frame has been drawn after electrons moved
C9_Witness ==
    /\ frames = 2
    /\ pc = "events"
    /\ Len(screen) = NUM_ELECTRONS
    /\ screen[1] # screen[2]

\* C10: the scheduler always holds exactly one pending event per electron, so
\* it is never empty and no electron's process has finished.
C10_OneEventPerElectron ==
    /\ elsim.env.queue # {}
    /\ Cardinality(elsim.env.queue) = Len(elsim.electrons)
    /\ \A id \in Ids(elsim) :
          Cardinality({ev \in elsim.env.queue : ev.proc = id}) = 1

\* after two full rounds every pending event is a timeout of the third
C10_Witness ==
    /\ elsim.env.now = 1
    /\ \A k \in 1..Len(elsim.electrons) : elsim.electrons[k].updates = 2
    /\ \A ev \in elsim.env.queue : ev.priority = NORMAL /\ ev.time = 2

\* the electron list the current round began with, also before a round's
\* first update
RoundStart == IF in_step(elsim.electrons) THEN round_start ELSE elsim.electrons

\* the step from this state to the next is an update of electrons[k]
Updates(k) == elsim'.electrons[k].updates = elsim.electrons[k].updates + 1

same_kinematics(a, b) == a.x = b.x /\ a.y = b.y /\ a.vx = b.vx /\ a.vy = b.vy

\* C2: within a round, when an electron's calculate_forces runs, every
\* electron still has the position and velocity it had when the round began,
\* and the force it accumulates is the one those positions give.
C2_ForcesBeforeIntegration ==
    [][\A k \in 1..Len(elsim.electrons) :
          Updates(k) =>
              /\ \A j \in 1..Len(elsim.electrons) :
                    same_kinematics(elsim.electrons[j], RoundStart[j])
              /\ LET f == calculate_forces(RoundStart[k], RoundStart)
                 IN  /\ elsim'.electrons[k].force_x = f.force_x
                     /\ elsim'.electrons[k].force_y = f.force_y]_vars

\* C4: two electrons at the same coordinate when a round begins are skipped
\* for each other in that round: when either one's calculate_forces runs, the
\* distance to the other is below the floor and the other adds nothing.
C4_CoincidentPairSkipped ==
    [][\A k, j \in 1..Len(elsim.electrons) :
          (/\ Updates(k)
           /\ j # k
           /\ RoundStart[k].x = RoundStart[j].x
           /\ RoundStart[k].y = RoundStart[j].y) =>
              /\ hypot(elsim.electrons[k].x - elsim.electrons[j].x,
                       elsim.electrons[k].y - elsim.electrons[j].y) < MIN_DIST
              /\ pair_force(elsim.electrons[k], elsim.electrons[j]) = <<0, 0>>]_vars

\* C5: two engines constructed with the same positions and velocities show
\* the same positions after the same number of env.step() calls, and the
\* event env.step() pops is determined by the state.
C5_Determinism ==
    /\ get_positions(twin) = get_positions(elsim)
    /\ twin.electrons = elsim.electrons
    /\ Cardinality(runnable(elsim.env.queue)) = 1

\* both engines have been stepped through two frames
C5_Witness ==
    /\ frames = 2
    /\ \A k \in 1..Len(twin.electrons) : twin.electrons[k].updates = 2
    /\ \A k \in 1..Len(elsim.electrons) : elsim.electrons[k].updates = 2
    /\ get_positions(twin) = get_positions(elsim)
    /\ \E k \in 1..Len(twin.electrons) : twin.electrons[k].force_x # 0

\* C6: for any two electrons not closer than the floor, what calculate_forces
\* adds to one for the other is the component-wise negation of what it adds
\* to the other for the one.
C6_ForceSymmetry ==
    \A a, b \in 1..Len(elsim.electrons) :
        LET ea == elsim.electrons[a]
            eb == elsim.electrons[b]
        IN  (a # b /\ hypot(ea.x - eb.x, ea.y - eb.y) >= MIN_DIST) =>
                /\ pair_force(ea, eb)[1] = -pair_force(eb, ea)[1]
                /\ pair_force(ea, eb)[2] = -pair_force(eb, ea)[2]

\* a moved pair that repels along both axes, with odd components
C6_Witness ==
    \E a, b \in 1..Len(elsim.electrons) :
        LET ea == elsim.electrons[a]
            eb == elsim.electrons[b]
        IN  /\ a # b /\ ea.updates > 0 /\ eb.updates > 0
            /\ pair_force(ea, eb)[1] > 0 /\ pair_force(ea, eb)[2] < 0
            /\ pair_force(ea, eb)[1] % 2 = 1

\* C7: after an electron's update, per axis: an integrated coordinate <= 0
\* gives coordinate 0 and velocity >= 0, one >= the maximum gives the maximum
\* and velocity <= 0, anything else is kept as integrated; so an electron at
\* x = 0 with negative vx and zero force ends at x = 0 with vx >= 0.
C7_Reflection ==
    [][\A k \in 1..Len(elsim.electrons) :
          Updates(k) =>
              LET e == elsim.electrons[k]
                  kin == update_kinematics(calculate_forces(e, elsim.electrons))
                  new == elsim'.electrons[k]
              IN  /\ kin.x <= 0 => new.x = 0 /\ new.vx >= 0
                  /\ kin.x >= WIDTH * SCALE => new.x = WIDTH * SCALE /\ new.vx <= 0
                  /\ (0 < kin.x /\ kin.x < WIDTH * SCALE) =>
                        new.x = kin.x /\ new.vx = kin.vx
                  /\ kin.y <= 0 => new.y = 0 /\ new.vy >= 0
                  /\ kin.y >= HEIGHT * SCALE => new.y = HEIGHT * SCALE /\ new.vy <= 0
                  /\ (0 < kin.y /\ kin.y < HEIGHT * SCALE) =>
                        new.y = kin.y /\ new.vy = kin.vy
                  /\ (e.x = 0 /\ e.vx < 0 /\ new.force_x = 0) =>
                        new.x = 0 /\ new.vx >= 0]_vars

\* one electron was turned round at x = 0 under zero force, another one was
\* put back on both walls of the far corner in a single update
C7_Witness ==
    /\ \E k \in 1..Len(elsim.electrons) :
          LET e == elsim.electrons[k]
          IN  /\ e.updates = 1 /\ e.x = 0 /\ e.vx = 3
              /\ e.force_x = 0 /\ e.force_y = 0 /\ e.y = 400
    /\ \E k \in 1..Len(elsim.electrons) :
          LET e == elsim.electrons[k]
          IN  /\ e.updates = 1 /\ e.x = WIDTH * SCALE /\ e.y = HEIGHT * SCALE
              /\ e.vx < 0 /\ e.vy < 0

\* C8: with a population of one, the accumulated force is (0, 0) after every
\* update and |vx| and |vy| never change.
C8_SelfExclusion ==
    /\ [](/\ Len(elsim.electrons) = 1
          /\ elsim.electrons[1].force_x = 0
          /\ elsim.electrons[1].force_y = 0)
    /\ [][/\ Abs(elsim'.electrons[1].vx) = Abs(elsim.electrons[1].vx)
          /\ Abs(elsim'.electrons[1].vy) = Abs(elsim.electrons[1].vy)]_vars

\* the single electron has bounced off two walls at once
C8_Witness ==
    /\ Len(elsim.electrons) = 1
    /\ elsim.electrons[1].updates = 1
    /\ elsim.electrons[1].x = 0 /\ elsim.electrons[1].vx = V0
    /\ elsim.electrons[1].y = HEIGHT * SCALE /\ elsim.electrons[1].vy = -V0

\* the synchronous step the per-electron processes are compared with: all
\* forces from the given positions, then every electron integrated and
\* reflected
advance_step(electrons) ==
    [k \in 1..Len(electrons) |->
        handle_boundaries(update_kinematics(calculate_forces(electrons[k], electrons)))]

\* C11: one round of the scheduler, started with all electrons at the same
\* number of updates, leaves every electron with the position and velocity
\* that one synchronous advance_step of the round's starting state gives.
C11_RoundIsSynchronousStep ==
    [][((\E k \in 1..Len(elsim.electrons) : Updates(k))
        /\ ~in_step(elsim'.electrons)) =>
            \A k \in 1..Len(elsim.electrons) :
                same_kinematics(elsim'.electrons[k], advance_step(RoundStart)[k])]_vars

\* C12: each env.step() runs the update of exactly one electron; the position,
\* velocity and accumulated force of every other electron stay as they were,
\* and the list keeps its length and the order of its ids.
C12_UpdateFrame ==
    [][elsim' # elsim =>
          /\ Len(elsim'.electrons) = Len(elsim.electrons)
          /\ \A j \in 1..Len(elsim.electrons) :
                elsim'.electrons[j].id = elsim.electrons[j].id
          /\ \E k \in 1..Len(elsim.electrons) :
                /\ Updates(k)
                /\ \A j \in 1..Len(elsim.electrons) :
                      j # k => elsim'.electrons[j] = elsim.electrons[j]]_vars

\* in the second round, an electron with a nonzero accumulated force has kept
\* it, and its place, while an electron before it was updated and moved
C12_Witness ==
    \E k, j \in 1..Len(elsim.electrons) :
        /\ k < j
        /\ elsim.electrons[k].updates = 2
        /\ elsim.electrons[k].x # round_start[k].x
        /\ elsim.electrons[j].updates = 1
        /\ elsim.electrons[j].force_x # 0
        /\ elsim.electrons[j] = round_start[j]

\* C13: in every update, handle_boundaries leaves |vx| and |vy| as
\* update_kinematics left them; it changes at most the sign.
C13_LosslessReflection ==
    [][\A k \in 1..Len(elsim.electrons) :
          Updates(k) =>
              LET kin == update_kinematics(calculate_forces(elsim.electrons[k],
                                                            elsim.electrons))
                  new == elsim'.electrons[k]
              IN  /\ Abs(new.vx) = Abs(kin.vx)
                  /\ Abs(new.vy) = Abs(kin.vy)]_vars

\* an electron thrown against the wall x = 0 by a close neighbour came back
\* with the speed the repulsion gave it, and one was turned at the right wall
C13_Witness ==
    /\ \E k \in 1..Len(elsim.electrons) :
          LET e == elsim.electrons[k]
          IN  e.updates = 1 /\ e.x = 0 /\ e.vx > V0 /\ e.force_x < 0
    /\ \E k \in 1..Len(elsim.electrons) :
          LET e == elsim.electrons[k]
          IN  e.updates = 1 /\ e.x = WIDTH * SCALE /\ e.vx = -4 /\ e.y = 300

RECURSIVE total_updates(_, _)
\* the updates completed by electrons[1..k] together
total_updates(electrons, k) ==
    IF k = 0 THEN 0 ELSE total_updates(electrons, k - 1) + electrons[k].updates

\* C14: each env.step() runs the update of exactly one electron, the electrons
\* take turns cyclically in id order 0, 1, ..., NUM_ELECTRONS-1, and the update
\* counts of any two electrons never differ by more than 1.
C14_RoundRobin ==
    /\ [](\A a, b \in 1..Len(elsim.electrons) :
             elsim.electrons[a].updates - elsim.electrons[b].updates \in {-1, 0, 1})
    /\ [][elsim' # elsim =>
             \E k \in 1..Len(elsim.electrons) :
                 /\ Updates(k)
                 /\ \A j \in 1..Len(elsim.electrons) :
                       j # k => elsim'.electrons[j].updates = elsim.electrons[j].updates
                 /\ elsim.electrons[k].id =
                       total_updates(elsim.electrons, Len(elsim.electrons))
                           % NUM_ELECTRONS]_vars

\* in the middle of the third round: electrons 0..3 are one update ahead
C14_Witness ==
    /\ Len(elsim.electrons) = NUM_ELECTRONS
    /\ \A k \in 1..Len(elsim.electrons) :
          elsim.electrons[k].updates = IF elsim.electrons[k].id <= 3 THEN 3 ELSE 2

\* a coordinate put back into 0..max
clamped(p, max) == IF p <= 0 THEN 0 ELSE IF p >= max THEN max ELSE p

\* C15: an update recomputes the force from zero (nothing of the electron's
\* previous force is carried over), then sets v_new = v + (force/mass)*dt and
\* advances the position with the new velocity, p + v_new*dt; the walls then
\* only clamp the position and set the sign of the velocity.
C15_Integration ==
    [][\A k \in 1..Len(elsim.electrons) :
          Updates(k) =>
              LET e == elsim.electrons[k]
                  new == elsim'.electrons[k]
                  f == sum_forces([e EXCEPT !.force_x = 0, !.force_y = 0],
                                  elsim.electrons, Len(elsim.electrons))
                  vx_new == e.vx + fdiv(f[1], ELECTRON_MASS) * TIME_STEP
                  vy_new == e.vy + fdiv(f[2], ELECTRON_MASS) * TIME_STEP
              IN  /\ new.force_x = f[1]
                  /\ new.force_y = f[2]
                  /\ Abs(new.vx) = Abs(vx_new)
                  /\ Abs(new.vy) = Abs(vy_new)
                  /\ new.x = clamped(e.x + vx_new * TIME_STEP, WIDTH * SCALE)
                  /\ new.y = clamped(e.y + vy_new * TIME_STEP, HEIGHT * SCALE)]_vars

\* an electron away from the walls whose velocity was changed by a nonzero
\* force in its first update and again in its second
C15_Witness ==
    \E k \in 1..Len(elsim.electrons) :
        LET e == elsim.electrons[k]
        IN  /\ e.updates = 2
            /\ fdiv(e.force_x, ELECTRON_MASS) # 0
            /\ e.force_y # 0
            /\ fdiv(round_start[k].force_x, ELECTRON_MASS) # 0
            /\ fdiv(round_start[k].force_y, ELECTRON_MASS) # 0
            /\ round_start[k].updates = 1
            /\ 0 < e.x /\ e.x < WIDTH * SCALE /\ 0 < e.y /\ e.y < HEIGHT * SCALE

====
